---- MODULE Spec2Model ----
(***************************************************************************)
(* Model of the caching HTTP client APIService (src/src/services/          *)
(* api_service.py) of crypto-api-tracker, and of monitor_price             *)
(* (src/src/main.py), which calls it.                                      *)
(*                                                                         *)
(* Strings are sequences of one-character strings, so that concatenation,  *)
(* escaping and parsing are computed and not assumed.  Python values are   *)
(* tagged records:                                                         *)
(*   None  [t |-> "null"]      True/False  [t |-> "true"] / [t |-> "false"] *)
(*   int   [t |-> "int", i |-> n]          str  [t |-> "str", s |-> chars]  *)
(*   list  [t |-> "list", xs |-> <<v, ...>>]                                *)
(*   dict  [t |-> "dict", kv |-> <<[k |-> chars, v |-> v], ...>>]           *)
(* A dict keeps its insertion order, as Python's dict does.                *)
(***************************************************************************)
EXTENDS Integers, Sequences, FiniteSets, TLC

(***************************************************************************)
(* Python values                                                           *)
(***************************************************************************)
None == [t |-> "null"]
PyTrue == [t |-> "true"]
PyFalse == [t |-> "false"]
PyInt(n) == [t |-> "int", i |-> n]
PyStr(s) == [t |-> "str", s |-> s]
PyList(xs) == [t |-> "list", xs |-> xs]
PyDict(kv) == [t |-> "dict", kv |-> kv]
Item(k, v) == [k |-> k, v |-> v]

\* bool(x): the truth value `if x:` tests.
Truthy(x) ==
    CASE x.t = "null" -> FALSE
      [] x.t = "false" -> FALSE
      [] x.t = "true" -> TRUE
      [] x.t = "int" -> x.i # 0
      [] x.t = "str" -> x.s # <<>>
      [] x.t = "list" -> x.xs # <<>>
      [] x.t = "dict" -> x.kv # <<>>

(***************************************************************************)
(* json.dumps: the text the encoder writes, with the default separators    *)
(* ", " and ": ".                                                          *)
(***************************************************************************)
Digits == <<"0", "1", "2", "3", "4", "5", "6", "7", "8", "9">>

RECURSIVE IntText(_)
IntText(n) ==
    IF n < 10 THEN <<Digits[n + 1]>>
    ELSE IntText(n \div 10) \o <<Digits[(n % 10) + 1]>>

\* An encoder that writes a string's characters as they are.
EscapeTextRaw(s) == s

\* py_encode_basestring_ascii: a quote and a backslash are escaped.
RECURSIVE EscapeText(_)
EscapeText(s) ==
    IF s = <<>> THEN <<>>
    ELSE (IF Head(s) = "\"" THEN <<"\\", "\"">>
          ELSE IF Head(s) = "\\" THEN <<"\\", "\\">>
          ELSE <<Head(s)>>) \o EscapeText(Tail(s))

StrText(s) == <<"\"">> \o EscapeText(s) \o <<"\"">>

RECURSIVE JsonDumps(_), ListText(_), DictText(_)
JsonDumps(x) ==
    CASE x.t = "null" -> <<"n", "u", "l", "l">>
      [] x.t = "true" -> <<"t", "r", "u", "e">>
      [] x.t = "false" -> <<"f", "a", "l", "s", "e">>
      [] x.t = "int" -> IntText(x.i)
      [] x.t = "str" -> StrText(x.s)
      [] x.t = "list" -> <<"[">> \o ListText(x.xs) \o <<"]">>
      [] x.t = "dict" -> <<"{">> \o DictText(x.kv) \o <<"}">>

ListText(xs) ==
    IF xs = <<>> THEN <<>>
    ELSE JsonDumps(Head(xs))
         \o (IF Tail(xs) = <<>> THEN <<>> ELSE <<",", " ">> \o ListText(Tail(xs)))

DictText(kv) ==
    IF kv = <<>> THEN <<>>
    ELSE StrText(Head(kv).k) \o <<":", " ">> \o JsonDumps(Head(kv).v)
         \o (IF Tail(kv) = <<>> THEN <<>> ELSE <<",", " ">> \o DictText(Tail(kv)))

(***************************************************************************)
(* json.loads: a recursive-descent parse of the whole text.  Each parser   *)
(* takes the text and a position and answers [ok, val, pos]: pos is the    *)
(* position after what it read.                                            *)
(***************************************************************************)
Fail == [ok |-> FALSE, val |-> None, pos |-> 0]
Got(v, p) == [ok |-> TRUE, val |-> v, pos |-> p]

At(s, i) == IF i >= 1 /\ i <= Len(s) THEN s[i] ELSE "EOF"

IsDigit(c) == \E d \in 1..10 : Digits[d] = c
DigitVal(c) == (CHOOSE d \in 1..10 : Digits[d] = c) - 1

RECURSIVE SkipWs(_, _)
SkipWs(s, i) == IF At(s, i) = " " THEN SkipWs(s, i + 1) ELSE i

Matches(s, i, word) ==
    /\ i + Len(word) - 1 <= Len(s)
    /\ \A j \in 1..Len(word) : s[i + j - 1] = word[j]

\* The digits of NUMBER_RE: "0", or a non-zero digit and more digits.
RECURSIVE ScanDigits(_, _, _)
ScanDigits(s, i, acc) ==
    IF IsDigit(At(s, i)) THEN ScanDigits(s, i + 1, acc * 10 + DigitVal(s[i]))
    ELSE Got(PyInt(acc), i)

ParseNumber(s, i) ==
    IF s[i] = "0" THEN Got(PyInt(0), i + 1) ELSE ScanDigits(s, i, 0)

\* scanstring: from the character after the opening quote to the closing one.
RECURSIVE ScanString(_, _, _)
ScanString(s, i, acc) ==
    LET c == At(s, i) IN
    IF c = "EOF" THEN Fail
    ELSE IF c = "\"" THEN Got(PyStr(acc), i + 1)
    ELSE IF c = "\\" THEN
        (IF At(s, i + 1) \in {"\"", "\\"}
         THEN ScanString(s, i + 2, Append(acc, s[i + 1]))
         ELSE Fail)
    ELSE ScanString(s, i + 1, Append(acc, c))

RECURSIVE ParseValue(_, _), ParseElems(_, _, _), ParseMembers(_, _, _)
ParseValue(s, i) ==
    LET c == At(s, i) IN
    CASE c = "n" -> IF Matches(s, i, <<"n", "u", "l", "l">>)
                    THEN Got(None, i + 4) ELSE Fail
      [] c = "t" -> IF Matches(s, i, <<"t", "r", "u", "e">>)
                    THEN Got(PyTrue, i + 4) ELSE Fail
      [] c = "f" -> IF Matches(s, i, <<"f", "a", "l", "s", "e">>)
                    THEN Got(PyFalse, i + 5) ELSE Fail
      [] IsDigit(c) -> ParseNumber(s, i)
      [] c = "\"" -> ScanString(s, i + 1, <<>>)
      [] c = "[" ->
            LET j == SkipWs(s, i + 1) IN
            IF At(s, j) = "]" THEN Got(PyList(<<>>), j + 1)
            ELSE ParseElems(s, j, <<>>)
      [] c = "{" ->
            LET j == SkipWs(s, i + 1) IN
            IF At(s, j) = "}" THEN Got(PyDict(<<>>), j + 1)
            ELSE ParseMembers(s, j, <<>>)
      [] OTHER -> Fail

\* JSONArray: a value, then "," and another value, or "]".
ParseElems(s, i, acc) ==
    LET r == ParseValue(s, i) IN
    IF ~r.ok THEN Fail
    ELSE LET j == SkipWs(s, r.pos) IN
         IF At(s, j) = "]" THEN Got(PyList(Append(acc, r.val)), j + 1)
         ELSE IF At(s, j) = "," THEN ParseElems(s, SkipWs(s, j + 1), Append(acc, r.val))
         ELSE Fail

\* JSONObject: "key" : value, then "," and another member, or "}".
ParseMembers(s, i, acc) ==
    IF At(s, i) # "\"" THEN Fail
    ELSE LET k == ScanString(s, i + 1, <<>>) IN
         IF ~k.ok THEN Fail
         ELSE LET c == SkipWs(s, k.pos) IN
              IF At(s, c) # ":" THEN Fail
              ELSE LET r == ParseValue(s, SkipWs(s, c + 1)) IN
                   IF ~r.ok THEN Fail
                   ELSE LET j == SkipWs(s, r.pos)
                            more == Append(acc, Item(k.val.s, r.val))
                        IN IF At(s, j) = "}" THEN Got(PyDict(more), j + 1)
                           ELSE IF At(s, j) = ","
                           THEN ParseMembers(s, SkipWs(s, j + 1), more)
                           ELSE Fail

\* JSONDecoder.decode: one value, and nothing but blanks after it.
JsonLoads(s) ==
    LET r == ParseValue(s, SkipWs(s, 1)) IN
    IF r.ok /\ SkipWs(s, r.pos) = Len(s) + 1 THEN r ELSE Fail

(***************************************************************************)
(* Strings: code-point order, str.replace, and the hash.                   *)
(***************************************************************************)
\* The characters of the model in code-point order.
Ascii == <<" ", "\"", ",", ".", "/",
           "0", "1", "2", "3", "4", "5", "6", "7", "8", "9", ":",
           "[", "\\", "]", "_",
           "a", "b", "c", "d", "e", "f", "g", "h", "i", "j", "k", "l", "m",
           "n", "o", "p", "q", "r", "s", "t", "u", "v", "w", "x", "y", "z",
           "{", "}">>

Ord(c) == CHOOSE n \in 1..Len(Ascii) : Ascii[n] = c

\* a < b for two strings, as Python's str.__lt__ orders them.
RECURSIVE StrLess(_, _)
StrLess(a, b) ==
    IF b = <<>> THEN FALSE
    ELSE IF a = <<>> THEN TRUE
    ELSE IF Head(a) = Head(b) THEN StrLess(Tail(a), Tail(b))
    ELSE Ord(Head(a)) < Ord(Head(b))

\* s.replace(old, new) for one-character old and new.
RECURSIVE Replace(_, _, _)
Replace(s, old, new) ==
    IF s = <<>> THEN <<>>
    ELSE <<IF Head(s) = old THEN new ELSE Head(s)>> \o Replace(Tail(s), old, new)

HexDigits == <<"0", "1", "2", "3", "4", "5", "6", "7",
               "8", "9", "a", "b", "c", "d", "e", "f">>

\* hashlib.md5(key.encode()).hexdigest(), taken as collision-free: a string
\* of hexadecimal digits that is different for different inputs (here the
\* hexadecimal code of each character in turn).
RECURSIVE Md5Hex(_)
Md5Hex(s) ==
    IF s = <<>> THEN <<>>
    ELSE <<HexDigits[(Ord(Head(s)) \div 16) + 1], HexDigits[(Ord(Head(s)) % 16) + 1]>>
         \o Md5Hex(Tail(s))

(***************************************************************************)
(* sort_keys=True: the items of every dict in ascending key order.         *)
(***************************************************************************)
RECURSIVE InsertItem(_, _)
InsertItem(sorted, it) ==
    IF sorted = <<>> THEN <<it>>
    ELSE IF StrLess(it.k, Head(sorted).k) THEN <<it>> \o sorted
    ELSE <<Head(sorted)>> \o InsertItem(Tail(sorted), it)

\* json.dumps without sort_keys: the items stay in insertion order.
SortItemsInsertionOrder(kv) == kv

RECURSIVE SortItems(_)
SortItems(kv) ==
    IF kv = <<>> THEN <<>>
    ELSE InsertItem(SortItems(Tail(kv)), Head(kv))

RECURSIVE SortKeys(_)
SortKeys(x) ==
    CASE x.t = "dict" ->
            PyDict(SortItems([n \in 1..Len(x.kv) |->
                                Item(x.kv[n].k, SortKeys(x.kv[n].v))]))
      [] x.t = "list" -> PyList([n \in 1..Len(x.xs) |-> SortKeys(x.xs[n])])
      [] OTHER -> x

(***************************************************************************)
(* APIService                                                              *)
(***************************************************************************)
CACHE_EXPIRY == 300

DotJson == <<".", "j", "s", "o", "n">>

\* _get_cache_path: the file name under CACHE_DIR.
GetCachePath(endpoint) == Replace(endpoint, "/", "_") \o DotJson

\* A key made of the parameters alone.
CacheKeyParamsOnly(endpoint, params) ==
    JsonDumps(SortKeys(IF Truthy(params) THEN params ELSE PyDict(<<>>)))

\* The string get hashes: endpoint + json.dumps(params or {}, sort_keys=True).
CacheKey(endpoint, params) ==
    endpoint \o JsonDumps(SortKeys(IF Truthy(params) THEN params ELSE PyDict(<<>>)))

\* The cache file of a request: get's first three lines.
CacheFile(endpoint, params) == GetCachePath(Md5Hex(CacheKey(endpoint, params)))

(***************************************************************************)
(* State.                                                                  *)
(*   files  the cache directory: for each file name whether it exists, its *)
(*          text, its modification time (st_mtime) and which operation     *)
(*          wrote it last                                                  *)
(*   now    time.time(), in seconds                                        *)
(*   last   the most recent call and what it did: its cache file, whether  *)
(*          the file existed when it was called, the value returned, the   *)
(*          exception raised, the number of HTTP requests sent, whether    *)
(*          the fallback message was printed                               *)
(*   d1, d2, k1, k2   two requests and their cache keys and files, for the *)
(*          key derivation                                                 *)
(*   procs  the calls of get that run concurrently, each with its position *)
(*          in get and its local variables                                 *)
(*   mon    a run of monitor_price: what get gave it, its arguments, and   *)
(*          what it did                                                    *)
(***************************************************************************)
VARIABLES files, now, last, d1, d2, k1, k2, procs, mon

vars == <<files, now, last, d1, d2, k1, k2, procs, mon>>
keyVars == <<d1, d2, k1, k2>>
auxVars == <<procs, mon>>

MaxNow == 301

\* Clock advances between calls: just under, exactly, and just over the
\* freshness window.
TickSteps == {CACHE_EXPIRY - 1, CACHE_EXPIRY, CACHE_EXPIRY + 1}

\* Requests the callers make (src/src/main.py, src/tests/test_api.py).
TestEndpoint == <<"t", "e", "s", "t", "_", "e", "n", "d", "p", "o", "i", "n", "t">>
CoinsMarkets == <<"c", "o", "i", "n", "s", "/", "m", "a", "r", "k", "e", "t", "s">>
VsCurrency == Item(<<"v", "s", "_", "c", "u", "r", "r", "e", "n", "c", "y">>,
                   PyStr(<<"u", "s", "d">>))
Ids == Item(<<"i", "d", "s">>, PyStr(<<"b", "i", "t", "c", "o", "i", "n">>))

Request(endpoint, params) == [endpoint |-> endpoint, params |-> params]

Requests ==
    { Request(TestEndpoint, None),
      Request(CoinsMarkets, PyDict(<<VsCurrency, Ids>>)) }

\* Response bodies: {"cached": "data"}, [{"id": "bitcoin", "current_price": 42}],
\* and the empty list [] that coins/markets answers for an unknown coin.
CachedData == PyDict(<<Item(<<"c", "a", "c", "h", "e", "d">>, PyStr(<<"d", "a", "t", "a">>))>>)
Bitcoin ==
    PyList(<<PyDict(<<Item(<<"i", "d">>, PyStr(<<"b", "i", "t", "c", "o", "i", "n">>)),
                      Item(<<"c", "u", "r", "r", "e", "n", "t", "_", "p", "r", "i", "c", "e">>,
                           PyInt(42))>>)>>)
Bodies == {CachedData, Bitcoin, PyList(<<>>)}

\* The values the direct calls of _save_to_cache store: the bodies, every
\* scalar, strings with characters the encoder escapes, and nested values.
Quoted == PyStr(<<"a", "\"", "\\", "b">>)
JsonValues ==
    Bodies \cup
    { None, PyTrue, PyFalse, PyInt(0), PyInt(42), PyInt(50000),
      PyStr(<<>>), Quoted, PyDict(<<>>),
      PyList(<<PyInt(1), PyList(<<None, Quoted>>)>>),
      PyDict(<<Item(<<"b">>, PyInt(1)), Item(<<"a", "\"">>, PyDict(<<Item(<<>>, PyFalse)>>))>>) }

\* What response.json() raises for a body that is not JSON: the requests
\* library's own JSONDecodeError, a RequestException ("RequestsJSONDecodeError"),
\* or, in releases of the library without that class, the decoder's
\* JSONDecodeError, a ValueError ("JSONDecodeError").
ParseErrors == {"RequestsJSONDecodeError", "JSONDecodeError"}

\* The exceptions of requests.exceptions that session.get, raise_for_status
\* and response.json raise; "Exception" is an exception of any other class.
RequestExceptions == {"ConnectionError", "Timeout", "HTTPError", "RequestsJSONDecodeError"}
Responses ==
    [kind : {"ok"}, body : Bodies]
      \cup [kind : RequestExceptions \cup {"JSONDecodeError", "Exception"}, body : {None}]

\* Where an interrupted write stops: before the first character, or after it.
CutPoints == {0, 1}

(***************************************************************************)
(* The functions of the text are computed once for the arguments the       *)
(* model uses, and looked up afterwards.                                   *)
(***************************************************************************)
FileOf == [r \in Requests |-> CacheFile(r.endpoint, r.params)]
Paths == {FileOf[r] : r \in Requests}
TextOf == [x \in JsonValues |-> JsonDumps(x)]
\* write(2) of text new at offset 0 of a file that holds old: the file is
\* not shortened.
Overlay(old, new) == new \o SubSeq(old, Len(new) + 1, Len(old))

Texts == {TextOf[x] : x \in JsonValues}
           \cup {SubSeq(TextOf[x], 1, n) : x \in Bodies, n \in CutPoints}
           \cup {Overlay(TextOf[x], TextOf[y]) : x, y \in Bodies}
ParseOf == [s \in Texts |-> JsonLoads(s)]

NoFile == [exists |-> FALSE, text |-> <<>>, mtime |-> 0, writer |-> "none"]

Idle == [op |-> "none", file |-> <<>>, had |-> FALSE, ret |-> None, raised |-> "none",
         net |-> 0, logged |-> FALSE]

\* _is_cache_valid with <= for <: an entry written exactly CACHE_EXPIRY
\* seconds ago still counts as valid.
IsCacheValidInclusive(fs, t, cache_file) ==
    IF ~fs[cache_file].exists THEN FALSE
    ELSE (t - fs[cache_file].mtime) <= CACHE_EXPIRY

\* _is_cache_valid
IsCacheValid(fs, t, cache_file) ==
    IF ~fs[cache_file].exists THEN FALSE
    ELSE (t - fs[cache_file].mtime) < CACHE_EXPIRY

\* _save_to_cache that opens with 'x' and gives up when the file exists: an
\* entry is written once and never overwritten.
SaveToCacheOnce(fs, t, cache_file, data, who) ==
    IF fs[cache_file].exists THEN fs
    ELSE [fs EXCEPT ![cache_file] =
            [exists |-> TRUE, text |-> TextOf[data], mtime |-> t, writer |-> who]]

\* _save_to_cache: open(cache_file, 'w') and json.dump; the write sets st_mtime.
SaveToCache(fs, t, cache_file, data, who) ==
    [fs EXCEPT ![cache_file] =
        [exists |-> TRUE, text |-> TextOf[data], mtime |-> t, writer |-> who]]

\* _load_from_cache: None for a missing file (IOError) and for a text that
\* does not parse (JSONDecodeError).
LoadFromCache(fs, cache_file) ==
    IF ~fs[cache_file].exists THEN None
    ELSE LET r == ParseOf[fs[cache_file].text] IN
         IF r.ok THEN r.val ELSE None

\* What get does with response resp, should it send the request: the value
\* returned, the exception raised, the requests sent, whether the fallback
\* message is printed, and whether the body is saved.
Result(ret, raised, net, logged, save) ==
    [ret |-> ret, raised |-> raised, net |-> net, logged |-> logged, save |-> save]

\* get that answers None where it should re-raise.
GetOutcomeDefault(fs, t, cache_file, resp) ==
    LET cached_data == LoadFromCache(fs, cache_file)
    IN IF IsCacheValid(fs, t, cache_file) /\ Truthy(cached_data)
       THEN Result(cached_data, "none", 0, FALSE, FALSE)
       ELSE IF resp.kind = "ok"
       THEN Result(resp.body, "none", 1, FALSE, TRUE)
       ELSE IF resp.kind \in RequestExceptions /\ Truthy(cached_data)
       THEN Result(cached_data, "none", 1, TRUE, FALSE)
       ELSE Result(None, "none", 1, FALSE, FALSE)

\* get that saves what it returns on the fallback path too.
GetOutcomeSaveFallback(fs, t, cache_file, resp) ==
    LET cached_data == LoadFromCache(fs, cache_file)
    IN IF IsCacheValid(fs, t, cache_file) /\ Truthy(cached_data)
       THEN Result(cached_data, "none", 0, FALSE, FALSE)
       ELSE IF resp.kind = "ok"
       THEN Result(resp.body, "none", 1, FALSE, TRUE)
       ELSE IF resp.kind \in RequestExceptions /\ Truthy(cached_data)
       THEN Result(cached_data, "none", 1, TRUE, TRUE)
       ELSE Result(None, resp.kind, 1, FALSE, FALSE)

\* get with a silent fallback.
GetOutcomeSilent(fs, t, cache_file, resp) ==
    LET cached_data == LoadFromCache(fs, cache_file)
    IN IF IsCacheValid(fs, t, cache_file) /\ Truthy(cached_data)
       THEN Result(cached_data, "none", 0, FALSE, FALSE)
       ELSE IF resp.kind = "ok"
       THEN Result(resp.body, "none", 1, FALSE, TRUE)
       ELSE IF resp.kind \in RequestExceptions /\ Truthy(cached_data)
       THEN Result(cached_data, "none", 1, FALSE, FALSE)
       ELSE Result(None, resp.kind, 1, FALSE, FALSE)

GetOutcome(fs, t, cache_file, resp) ==
    LET cached_data == LoadFromCache(fs, cache_file)
    IN IF IsCacheValid(fs, t, cache_file) /\ Truthy(cached_data)
       THEN Result(cached_data, "none", 0, FALSE, FALSE)
       ELSE IF resp.kind = "ok"
       THEN Result(resp.body, "none", 1, FALSE, TRUE)
       ELSE IF resp.kind \in RequestExceptions /\ Truthy(cached_data)
       THEN Result(cached_data, "none", 1, TRUE, FALSE)
       ELSE Result(None, resp.kind, 1, FALSE, FALSE)

Called(op, cache_file, ret, raised, net, logged) ==
    [op |-> op, file |-> cache_file, had |-> files[cache_file].exists,
     ret |-> ret, raised |-> raised, net |-> net, logged |-> logged]

\* APIService.get(endpoint, params)
Get(endpoint, params, resp) ==
    LET cache_file == FileOf[Request(endpoint, params)]
        o == GetOutcome(files, now, cache_file, resp)
    IN /\ files' = IF o.save THEN SaveToCache(files, now, cache_file, resp.body, "get")
                   ELSE files
       /\ last' = Called("get", cache_file, o.ret, o.raised, o.net, o.logged)
       /\ UNCHANGED <<now, keyVars, auxVars>>

\* A _save_to_cache that does not complete (the process is killed):
\* open(cache_file, 'w') has emptied the file and json.dump has written the
\* first n characters.
SaveInterrupted(cache_file, data, n) ==
    /\ n < Len(TextOf[data])
    /\ files' = [files EXCEPT ![cache_file] =
                    [exists |-> TRUE, text |-> SubSeq(TextOf[data], 1, n),
                     mtime |-> now, writer |-> "interrupted"]]
    /\ last' = Called("interrupted", cache_file, None, "none", 0, FALSE)
    /\ UNCHANGED <<now, keyVars, auxVars>>

\* A direct call of _is_cache_valid(cache_file).
Valid(cache_file) ==
    /\ last' = Called("valid", cache_file,
                      IF IsCacheValid(files, now, cache_file) THEN PyTrue ELSE PyFalse,
                      "none", 0, FALSE)
    /\ UNCHANGED <<files, now, keyVars, auxVars>>

\* Time passes between two calls.
Tick(step) ==
    /\ now + step <= MaxNow
    /\ now' = now + step
    /\ UNCHANGED <<files, last, keyVars, auxVars>>

NoRequest == Request(<<>>, None)

NoKey == [key |-> <<>>, file |-> <<>>]

\* No concurrent call and no monitor_price run.
NoProcs == <<>>
NoRun == [pc |-> "none"]

Init ==
    /\ files = [f \in Paths |-> NoFile]
    /\ now = 0
    /\ last = Idle
    /\ d1 = NoRequest /\ d2 = NoRequest
    /\ k1 = NoKey /\ k2 = NoKey
    /\ procs = NoProcs
    /\ mon = NoRun

Next ==
    \/ \E r \in Requests, resp \in Responses : Get(r.endpoint, r.params, resp)
    \/ \E f \in Paths, data \in Bodies, n \in CutPoints : SaveInterrupted(f, data, n)
    \/ \E f \in Paths : Valid(f)
    \/ \E step \in TickSteps : Tick(step)

Spec == Init /\ [][Next]_vars

(***************************************************************************)
(* The cache primitives called directly, as src/tests/test_api.py does.    *)
(***************************************************************************)
\* A direct call of _save_to_cache(cache_file, data).
Save(cache_file, data) ==
    /\ files' = SaveToCache(files, now, cache_file, data, "save")
    /\ last' = Called("save", cache_file, None, "none", 0, FALSE)
    /\ UNCHANGED <<now, keyVars, auxVars>>

\* A direct call of _load_from_cache(cache_file).
Load(cache_file) ==
    /\ last' = Called("load", cache_file, LoadFromCache(files, cache_file), "none", 0, FALSE)
    /\ UNCHANGED <<files, now, keyVars, auxVars>>

NextStore ==
    \/ \E f \in Paths, data \in JsonValues : Save(f, data)
    \/ \E f \in Paths : Load(f)

SpecStore == Init /\ [][NextStore]_vars

(***************************************************************************)
(* One process that only calls get, while time passes: no other writer of  *)
(* the cache files.                                                        *)
(***************************************************************************)
NextGets ==
    \/ \E r \in Requests, resp \in Responses : Get(r.endpoint, r.params, resp)
    \/ \E step \in TickSteps : Tick(step)

SpecGets == Init /\ [][NextGets]_vars

(***************************************************************************)
(* test_api_request_failure_with_cache of src/tests/test_api.py: the test  *)
(* stores data in the file _get_cache_path(endpoint), then calls           *)
(* get(endpoint) with a request that fails.                                *)
(***************************************************************************)
TestRequest == Request(TestEndpoint, None)

\* cache_file = api._get_cache_path(endpoint)
TestFile == GetCachePath(TestEndpoint)

InitTest ==
    /\ files = [f \in Paths \cup {TestFile} |-> NoFile]
    /\ now = 0
    /\ last = Idle
    /\ d1 = NoRequest /\ d2 = NoRequest
    /\ k1 = NoKey /\ k2 = NoKey
    /\ procs = NoProcs
    /\ mon = NoRun

NextTest ==
    \/ \E data \in JsonValues : Save(TestFile, data)
    \/ \E resp \in Responses : Get(TestEndpoint, None, resp)
    \/ \E step \in TickSteps : Tick(step)

SpecTest == InitTest /\ [][NextTest]_vars

(***************************************************************************)
(* monitor_price of src/src/main.py.  The outcome of its call of get is an *)
(* input: a value returned or an exception raised.  A coin is a dict with  *)
(* an id and, present or not, a current_price and a market_cap of the      *)
(* shapes below.                                                           *)
(***************************************************************************)
Usd == <<"u", "s", "d">>
Eur == <<"e", "u", "r">>
Currencies == {Usd, Eur}
Thresholds == {40, 50}

CurrentPriceKey == <<"c", "u", "r", "r", "e", "n", "t", "_", "p", "r", "i", "c", "e">>
MarketCapKey == <<"m", "a", "r", "k", "e", "t", "_", "c", "a", "p">>
NotAvailable == PyStr(<<"N", "/", "A">>)

PriceValues ==
    { PyInt(42), PyStr(<<"4", "2">>), PyStr(<<"n", "/", "a">>), None,
      PyDict(<<Item(Usd, PyInt(42))>>), PyDict(<<Item(Eur, PyStr(<<"4", "2">>))>>) }
CapValues ==
    { PyInt(800), None, PyDict(<<Item(Usd, PyInt(800))>>), PyDict(<<Item(Eur, PyInt(800))>>) }

Coins ==
    { PyDict(<<Item(<<"i", "d">>, PyStr(<<"b", "i", "t", "c", "o", "i", "n">>))>> \o price \o cap) :
        price \in {<<>>} \cup {<<Item(CurrentPriceKey, v)>> : v \in PriceValues},
        cap \in {<<>>} \cup {<<Item(MarketCapKey, v)>> : v \in CapValues} }

\* What api.get("coins/markets", params) gives monitor_price.
GetResults ==
    [raised : {"none"}, ret : {PyList(<<c>>) : c \in Coins} \cup {PyList(<<>>), None, CachedData}]
      \cup [raised : {"ConnectionError"}, ret : {None}]

\* d.get(key, default)
DictGet(d, key, default) ==
    IF \E n \in 1..Len(d.kv) : d.kv[n].k = key
    THEN d.kv[CHOOSE n \in 1..Len(d.kv) : d.kv[n].k = key].v
    ELSE default

\* float(s) accepts s: a string of digits.
IsNumeric(s) == s # <<>> /\ \A n \in 1..Len(s) : IsDigit(s[n])

\* float(s)
FloatOf(s) == ScanDigits(s, 1, 0).val.i

Outcome(alerted, price, error) == [alerted |-> alerted, price |-> price, error |-> error]

\* The body of monitor_price: whether send_email_alert is called, the
\* current_price compared with the threshold, and the exception that the
\* except clause catches.
MonitorOutcome(got, threshold, currency) ==
    IF got.raised # "none" THEN Outcome(FALSE, None, got.raised)
    ELSE LET data == got.ret IN
    IF ~Truthy(data) \/ data.t # "list" THEN Outcome(FALSE, None, "none")
    ELSE LET coin == data.xs[1]
             price == DictGet(coin, CurrentPriceKey, None)
             in_currency == IF price.t = "dict" THEN DictGet(price, currency, PyInt(0))
                            ELSE price
             current_price ==
                 IF in_currency.t = "str"
                 THEN IF IsNumeric(in_currency.s) THEN PyInt(FloatOf(in_currency.s))
                      ELSE PyInt(0)
                 ELSE in_currency
         IN
    IF current_price.t # "int" THEN Outcome(FALSE, current_price, "TypeError")
    ELSE IF ~(current_price.i <= threshold) THEN Outcome(FALSE, current_price, "none")
    ELSE LET market_cap == DictGet(coin, MarketCapKey, PyDict(<<>>)) IN
    IF market_cap.t # "dict" THEN Outcome(FALSE, current_price, "AttributeError")
    ELSE LET shown == DictGet(market_cap, currency, NotAvailable) IN
    IF shown.t = "str" THEN Outcome(FALSE, current_price, "ValueError")
    ELSE IF shown.t # "int" THEN Outcome(FALSE, current_price, "TypeError")
    ELSE Outcome(TRUE, current_price, "none")

\* monitor_price(api, coin_id, threshold, currency)
MonitorPrice(got, threshold, currency) ==
    /\ mon' = [pc |-> "done", got |-> got, threshold |-> threshold, currency |-> currency,
               out |-> MonitorOutcome(got, threshold, currency)]
    /\ UNCHANGED <<files, now, last, keyVars, procs>>

NextMonitor ==
    \E got \in GetResults, threshold \in Thresholds, currency \in Currencies :
        MonitorPrice(got, threshold, currency)

SpecMonitor == Init /\ [][NextMonitor]_vars

(***************************************************************************)
(* _load_from_cache with its try block: what open and json.load raise, and *)
(* what the except clause does with it.  The entries are those the program *)
(* writes: complete ones and the prefixes an interrupted write leaves.     *)
(***************************************************************************)
\* What the body of the try block raises: open raises FileNotFoundError, an
\* IOError, for a missing file; json.load raises JSONDecodeError for a text
\* that does not parse.
LoadRaises(fs, cache_file) ==
    IF ~fs[cache_file].exists THEN "IOError"
    ELSE IF ~ParseOf[fs[cache_file].text].ok THEN "JSONDecodeError"
    ELSE "none"

\* A try block whose except clause names IOError only.
LoadAttemptIOErrorOnly(fs, cache_file) ==
    LET e == LoadRaises(fs, cache_file)
    IN IF e = "none" THEN [ret |-> ParseOf[fs[cache_file].text].val, raised |-> "none"]
       ELSE IF e \in {"IOError"} THEN [ret |-> None, raised |-> "none"]
       ELSE [ret |-> None, raised |-> e]

\* try: return json.load(f)  except (IOError, json.JSONDecodeError): return None
LoadAttempt(fs, cache_file) ==
    LET e == LoadRaises(fs, cache_file)
    IN IF e = "none" THEN [ret |-> ParseOf[fs[cache_file].text].val, raised |-> "none"]
       ELSE IF e \in {"IOError", "JSONDecodeError"} THEN [ret |-> None, raised |-> "none"]
       ELSE [ret |-> None, raised |-> e]

\* A direct call of _load_from_cache(cache_file), with what it raises.
LoadEntry(cache_file) ==
    /\ LET o == LoadAttempt(files, cache_file) IN
       last' = Called("load", cache_file, o.ret, o.raised, 0, FALSE)
    /\ UNCHANGED <<files, now, keyVars, auxVars>>

NextLoad ==
    \/ \E f \in Paths, data \in Bodies : Save(f, data)
    \/ \E f \in Paths, data \in Bodies, n \in CutPoints : SaveInterrupted(f, data, n)
    \/ \E f \in Paths : LoadEntry(f)

SpecLoad == Init /\ [][NextLoad]_vars

(***************************************************************************)
(* Key derivation: get's first three lines, applied to two requests drawn  *)
(* from every endpoint of up to MaxEndpointLen characters and every        *)
(* parameter dict of up to MaxParams items, in every insertion order.      *)
(***************************************************************************)
MaxEndpointLen == 2
MaxParams == 2

EndpointChars == {"a", "{"}
ParamKeys == {<<"b">>, <<"a", "b">>}
ParamValues == {PyInt(1), PyStr(<<"1">>), PyTrue}

KeyEndpoints == UNION {[1..m -> EndpointChars] : m \in 1..MaxEndpointLen}
KeyItems == {Item(k, v) : k \in ParamKeys, v \in ParamValues}
KeyDicts ==
    {kv \in UNION {[1..m -> KeyItems] : m \in 0..MaxParams} :
        \A i, j \in 1..Len(kv) : i # j => kv[i].k # kv[j].k}
KeyParams == {None} \cup {PyDict(kv) : kv \in KeyDicts}
KeyRequests == {Request(e, p) : e \in KeyEndpoints, p \in KeyParams}

KeyAndFile(r) ==
    [key |-> CacheKey(r.endpoint, r.params), file |-> CacheFile(r.endpoint, r.params)]

KeyTable == [r \in KeyRequests |-> KeyAndFile(r)]

\* get(d1.endpoint, d1.params) and get(d2.endpoint, d2.params) derive their
\* cache keys and files.
DeriveKeys ==
    /\ k1 = NoKey
    /\ k1' = KeyTable[d1]
    /\ k2' = KeyTable[d2]
    /\ UNCHANGED <<files, now, last, d1, d2, auxVars>>

InitKey ==
    /\ files = [f \in Paths |-> NoFile]
    /\ now = 0
    /\ last = Idle
    /\ d1 \in KeyRequests /\ d2 \in KeyRequests
    /\ k1 = NoKey /\ k2 = NoKey
    /\ procs = NoProcs
    /\ mon = NoRun

NextKey == DeriveKeys

SpecKey == InitKey /\ [][NextKey]_vars

(***************************************************************************)
(* Concurrent calls of get for one key, statement by statement.  Each      *)
(* caller has its own file object: open(cache_file, 'w') empties the file  *)
(* and sets the caller's offset to 0; json.dump fills the file object's    *)
(* buffer, and leaving the with block writes the buffer at that offset (a  *)
(* body is shorter than the buffer).  A read returns the file's text as it *)
(* is at that moment.                                                      *)
(***************************************************************************)
Callers == {"a", "b"}

ConcRequest == Request(TestEndpoint, None)
ConcFile == FileOf[ConcRequest]
ConcResponses == {resp \in Responses : resp.kind \in {"ok", "ConnectionError"}}

NotRead == [read |-> FALSE, exists |-> FALSE, text |-> <<>>, during |-> FALSE]

IdleCaller == [pc |-> "idle", body |-> None, seen |-> NotRead, ret |-> None,
               raised |-> "none", net |-> 0, wrote |-> FALSE]

\* Another caller is inside _save_to_cache: it has opened the file and has
\* not left the with block.
SaveInProgress(c) == \E o \in Callers \ {c} : procs[o].pc = "write"

\* What caller c's _load_from_cache reads now.
ReadNow(c) ==
    [read |-> TRUE, exists |-> files[ConcFile].exists, text |-> files[ConcFile].text,
     during |-> SaveInProgress(c)]

ConcUnchanged == UNCHANGED <<now, last, keyVars, mon>>

\* get is called: lines 60-62.
Call(c) ==
    /\ procs[c].pc \in {"idle", "done"}
    /\ procs' = [procs EXCEPT ![c] = [IdleCaller EXCEPT !.pc = "valid"]]
    /\ UNCHANGED files /\ ConcUnchanged

\* if self._is_cache_valid(cache_file): line 65.
CheckValid(c) ==
    /\ procs[c].pc = "valid"
    /\ procs' = [procs EXCEPT ![c].pc =
                    IF IsCacheValid(files, now, ConcFile) THEN "load" ELSE "request"]
    /\ UNCHANGED files /\ ConcUnchanged

\* cached_data = self._load_from_cache(cache_file); if cached_data: return:
\* lines 66-68.
HitLoad(c) ==
    /\ procs[c].pc = "load"
    /\ LET cached_data == LoadFromCache(files, ConcFile) IN
       procs' = [procs EXCEPT ![c] =
                    IF Truthy(cached_data)
                    THEN [@ EXCEPT !.pc = "done", !.seen = ReadNow(c), !.ret = cached_data]
                    ELSE [@ EXCEPT !.pc = "request", !.seen = ReadNow(c)]]
    /\ UNCHANGED files /\ ConcUnchanged

\* session.get, raise_for_status, response.json: lines 73-75.
SendRequest(c, resp) ==
    /\ procs[c].pc = "request"
    /\ procs' = [procs EXCEPT ![c] =
                    IF resp.kind = "ok"
                    THEN [@ EXCEPT !.pc = "open", !.body = resp.body, !.net = 1]
                    ELSE [@ EXCEPT !.pc = "fallback", !.raised = resp.kind, !.net = 1]]
    /\ UNCHANGED files /\ ConcUnchanged

\* with open(cache_file, 'w') as f: line 35.
OpenForWrite(c) ==
    /\ procs[c].pc = "open"
    /\ files' = [files EXCEPT ![ConcFile] =
                    [exists |-> TRUE, text |-> <<>>, mtime |-> now, writer |-> "get"]]
    /\ procs' = [procs EXCEPT ![c].pc = "write"]
    /\ ConcUnchanged

\* json.dump(data, f) and the end of the with block, then return data:
\* lines 36 and 79.
WriteAndClose(c) ==
    /\ procs[c].pc = "write"
    /\ files' = [files EXCEPT ![ConcFile] =
                    [exists |-> TRUE,
                     text |-> Overlay(files[ConcFile].text, TextOf[procs[c].body]),
                     mtime |-> now, writer |-> "get"]]
    /\ procs' = [procs EXCEPT ![c] =
                    [@ EXCEPT !.pc = "done", !.ret = procs[c].body, !.wrote = TRUE]]
    /\ ConcUnchanged

\* The except block: lines 83-87.
FallbackLoad(c) ==
    /\ procs[c].pc = "fallback"
    /\ LET cached_data == LoadFromCache(files, ConcFile) IN
       procs' = [procs EXCEPT ![c] =
                    IF Truthy(cached_data)
                    THEN [@ EXCEPT !.pc = "done", !.seen = ReadNow(c),
                                   !.ret = cached_data, !.raised = "none"]
                    ELSE [@ EXCEPT !.pc = "done", !.seen = ReadNow(c)]]
    /\ UNCHANGED files /\ ConcUnchanged

InitConc ==
    /\ files = [f \in Paths |-> NoFile]
    /\ now = 0
    /\ last = Idle
    /\ d1 = NoRequest /\ d2 = NoRequest
    /\ k1 = NoKey /\ k2 = NoKey
    /\ procs = [c \in Callers |-> IdleCaller]
    /\ mon = NoRun

NextConc ==
    \E c \in Callers :
        \/ Call(c)
        \/ CheckValid(c)
        \/ HitLoad(c)
        \/ \E resp \in ConcResponses : SendRequest(c, resp)
        \/ OpenForWrite(c)
        \/ WriteAndClose(c)
        \/ FallbackLoad(c)

SpecConc == InitConc /\ [][NextConc]_vars

\* The texts of complete entries.
CompleteTexts == {TextOf[x] : x \in Bodies}

\* C11 (store atomicity): a caller that reads the entry while another
\* caller's _save_to_cache is in progress reads a complete entry (the one
\* before the save or the one it writes) or finds no entry: never an empty,
\* truncated or unparseable text.
C11_AtomicStore ==
    \A c \in Callers :
        (procs[c].seen.read /\ procs[c].seen.during /\ procs[c].seen.exists)
        => procs[c].seen.text \in CompleteTexts

\* C12 (last writer wins): once two calls of get for the same key have both
\* fetched and both left _save_to_cache, the entry holds the complete body
\* of one of them.
C12_LastWriterWins ==
    (\A c \in Callers : procs[c].pc = "done" /\ procs[c].wrote)
    => \E c \in Callers : files[ConcFile].text = TextOf[procs[c].body]

(***************************************************************************)
(* Properties of get.  A step of get for request r with response resp is   *)
(* the action GetStep(r, resp); the unprimed variables are the state get   *)
(* is called in and the primed ones the state it leaves.                   *)
(***************************************************************************)
\* The entry of cache_file exists and its text deserializes.
Deserializes(fs, cache_file) ==
    fs[cache_file].exists /\ ParseOf[fs[cache_file].text].ok

\* The value stored in an entry that deserializes.
Stored(fs, cache_file) == ParseOf[fs[cache_file].text].val

\* The entry of cache_file is within the freshness window at time t.
Fresh(fs, t, cache_file) ==
    fs[cache_file].exists /\ t - fs[cache_file].mtime < CACHE_EXPIRY

\* This step is get(r.endpoint, r.params) answered by resp, should it send
\* its request.
GetStep(r, resp) ==
    /\ last'.op = "get"
    /\ last'.file = FileOf[r]
    /\ Get(r.endpoint, r.params, resp)

\* get sent its request and the request failed.
RequestFailed(resp, call) == call.net = 1 /\ resp.kind # "ok"

\* C1 (cache hit): whenever get is called for a request whose entry exists,
\* was written less than 300 s ago and deserializes, whatever JSON value it
\* holds, get returns exactly the stored value and sends no request.
C1_CacheHit ==
    [][\A r \in Requests, resp \in Responses :
        (/\ GetStep(r, resp)
         /\ Fresh(files, now, FileOf[r])
         /\ Deserializes(files, FileOf[r]))
        => (/\ last'.raised = "none"
            /\ last'.ret = Stored(files, FileOf[r])
            /\ last'.net = 0)]_vars

\* C2 (degraded fallback): whenever get's request fails with an exception of
\* requests (transport error, timeout, non-success status) and the entry of
\* the key exists and deserializes, whatever its age and value, get returns
\* the entry's value and does not raise.
C2_Fallback ==
    [][\A r \in Requests, resp \in Responses :
        (/\ GetStep(r, resp)
         /\ RequestFailed(resp, last')
         /\ resp.kind \in RequestExceptions
         /\ Deserializes(files, FileOf[r]))
        => (/\ last'.raised = "none"
            /\ last'.ret = Stored(files, FileOf[r]))]_vars

\* C3 (no-fallback failure): whenever get's request fails and the entry of
\* the key does not exist or does not deserialize, get raises the error of
\* that request and returns nothing.
C3_NoFallback ==
    [][\A r \in Requests, resp \in Responses :
        (/\ GetStep(r, resp)
         /\ RequestFailed(resp, last')
         /\ ~Deserializes(files, FileOf[r]))
        => (/\ last'.raised = resp.kind
            /\ last'.ret = None
            /\ ~last'.logged)]_vars

\* A get has raised the error of its request over an entry that exists and
\* does not parse.
C3_Witness ==
    /\ last.op = "get"
    /\ last.raised \in RequestExceptions
    /\ last.net = 1
    /\ files[last.file].exists
    /\ ~ParseOf[files[last.file].text].ok

\* get sent its request and the request succeeded.
Fetched(resp, call) == call.net = 1 /\ resp.kind = "ok"

\* The entry _save_to_cache(cache_file, data) leaves at time t.
Written(t, data) ==
    [exists |-> TRUE, text |-> JsonDumps(data), mtime |-> t, writer |-> "get"]

\* C4 (cache miss + success): whenever get sends its request and the request
\* succeeds with body X, get returns X, and the entry of the key afterwards
\* holds X, whatever it held before: its text parses to X and
\* _load_from_cache returns X.
C4_FetchStores ==
    [][\A r \in Requests, resp \in Responses :
        (/\ GetStep(r, resp)
         /\ Fetched(resp, last'))
        => (/\ last'.raised = "none"
            /\ last'.ret = resp.body
            /\ files'[FileOf[r]].exists
            /\ JsonLoads(files'[FileOf[r]].text) = Got(resp.body, Len(files'[FileOf[r]].text) + 1)
            /\ LoadFromCache(files', FileOf[r]) = resp.body)]_vars

\* A get has fetched a body over an entry that existed, and the entry now
\* holds that body.
C4_Witness ==
    /\ last.op = "get"
    /\ last.net = 1
    /\ last.raised = "none"
    /\ ~last.logged
    /\ last.had
    /\ last.ret \in Bodies
    /\ files[last.file].text = JsonDumps(last.ret)
    /\ files[last.file].mtime = now
    /\ now > 0

\* C5 (writes only on a successful fetch): a get whose request succeeds
\* writes the entry of its key (the body, at the current time); a get that
\* ends as a cache hit, as a fallback return or by raising leaves the entry
\* as it was; and no get changes the entry of another key.
C5_WritesOnlyOnFetch ==
    [][\A r \in Requests, resp \in Responses :
        GetStep(r, resp)
        => (/\ \A g \in Paths \ {FileOf[r]} : files'[g] = files[g]
            /\ files'[FileOf[r]] =
                 IF Fetched(resp, last') THEN Written(now, resp.body)
                 ELSE files[FileOf[r]])]_vars

\* A get has returned the entry's value after a failed request, another key
\* has an entry too, and the entry read is older than the call.
C5_Witness ==
    /\ last.op = "get"
    /\ last.logged
    /\ files[last.file].mtime < now
    /\ \E g \in Paths \ {last.file} : files[g].exists

\* C6 (request-volume bound): whenever get is called for a key whose entry
\* was last written by a get that fetched it, with any body, less than 300 s
\* ago, it sends no request.
C6_NoRequestWithinWindow ==
    [][\A r \in Requests, resp \in Responses :
        (/\ GetStep(r, resp)
         /\ files[FileOf[r]].exists
         /\ files[FileOf[r]].writer = "get"
         /\ now < files[FileOf[r]].mtime + CACHE_EXPIRY)
        => last'.net = 0]_vars

\* C9 (freshness): _is_cache_valid answers True exactly when the entry exists
\* and the current time minus its last-write time is less than 300 s, so an
\* entry written 300 s ago or more, and a missing entry, are not valid; and
\* the entry a get has just saved is valid.
C9_Freshness ==
    [][/\ \A f \in Paths :
            Valid(f) =>
               (last'.ret = PyTrue
                  <=> (files[f].exists /\ now - files[f].mtime < CACHE_EXPIRY))
       /\ \A r \in Requests, resp \in Responses :
            (GetStep(r, resp) /\ Fetched(resp, last'))
            => IsCacheValid(files', now', FileOf[r])]_vars

\* _is_cache_valid has answered False for an entry written exactly 300 s
\* before.
C9_Witness ==
    /\ last.op = "valid"
    /\ last.ret = PyFalse
    /\ files[last.file].exists
    /\ now - files[last.file].mtime = CACHE_EXPIRY

(***************************************************************************)
(* Properties of the cache primitives, under SpecStore.                    *)
(***************************************************************************)
\* C10 (round trip): after _save_to_cache(file, X), for every JSON value X
\* and whatever the file held before, the file's text parses to X and
\* _load_from_cache(file) returns X; a direct _load_from_cache call returns
\* what the file's text parses to.
C10_RoundTrip ==
    [][/\ \A f \in Paths, data \in JsonValues :
            Save(f, data) =>
               (/\ JsonLoads(files'[f].text) = Got(data, Len(files'[f].text) + 1)
                /\ LoadFromCache(files', f) = data)
       /\ \A f \in Paths :
            (Load(f) /\ files[f].exists)
            => JsonDumps(last'.ret) = files[f].text]_vars

\* A second _save_to_cache has replaced an entry, and the entry now holds a
\* nested value with a string the encoder escapes.
C10_Witness ==
    /\ last.op = "save"
    /\ last.had
    /\ LoadFromCache(files, last.file) = PyList(<<PyInt(1), PyList(<<None, Quoted>>)>>)

(***************************************************************************)
(* Properties of the key derivation, under SpecKey.                        *)
(***************************************************************************)
\* The parameter mapping of a request: its set of (key, value) items; absent
\* parameters are the empty mapping.
Mapping(params) ==
    IF params.t = "dict" THEN {params.kv[n] : n \in 1..Len(params.kv)} ELSE {}

\* Two requests with the same endpoint and equal parameter mappings.
Equivalent(a, b) ==
    a.endpoint = b.endpoint /\ Mapping(a.params) = Mapping(b.params)

\* C7 (key determinism): two requests with the same endpoint and equal
\* parameter mappings, in any insertion order, absent parameters counting as
\* empty ones, get the same cache key and the same cache file.
C7_KeyDeterminism ==
    (k1 # NoKey /\ Equivalent(d1, d2)) => (k1.key = k2.key /\ k1.file = k2.file)

\* The keys of two requests have been derived whose parameters are the same
\* two items in opposite orders.
C7_Witness ==
    /\ k1 # NoKey
    /\ Equivalent(d1, d2)
    /\ d1.params.t = "dict" /\ d2.params.t = "dict"
    /\ Len(d1.params.kv) = 2
    /\ d1.params.kv # d2.params.kv

\* C8 (key distinctness): two requests that differ in the endpoint or in the
\* parameter mapping are hashed from different strings and, the hash being
\* collision-free, get different cache files.
C8_KeyDistinctness ==
    (k1 # NoKey /\ ~Equivalent(d1, d2)) => (k1.key # k2.key /\ k1.file # k2.file)

\* The keys of two requests have been derived that differ in the endpoint
\* only, the longer endpoint ending in the character that opens the
\* parameters' text.
C8_Witness ==
    /\ k1 # NoKey
    /\ d1.params = d2.params
    /\ d2.endpoint = d1.endpoint \o <<"{">>
    /\ k1.key # k2.key

(***************************************************************************)
(* Error handling and logging of get, under Spec.                          *)
(***************************************************************************)
\* C13 (deserialization failures are absorbed): no call of get raises an
\* error caused by a parse failure, of the cache entry or of the response
\* body.
C13_ParseFailureAbsorbed ==
    [][\A r \in Requests, resp \in Responses :
         GetStep(r, resp) => last'.raised \notin ParseErrors]_vars

\* C15 (degraded returns are logged): a call of get prints the fallback
\* message exactly when it returns cached data after its request failed;
\* a return from a cache hit or from a fetch prints none.
C15_FallbackLogged ==
    [][\A r \in Requests, resp \in Responses :
         GetStep(r, resp)
         => (last'.logged <=> (RequestFailed(resp, last') /\ last'.raised = "none"))]_vars

\* A get has returned the entry's data after a failed request and printed
\* the message.
C15_Witness ==
    /\ last.op = "get"
    /\ last.net = 1
    /\ last.raised = "none"
    /\ last.logged
    /\ last.ret = Stored(files, last.file)

\* C18 (fallback on any exception): when the request of get fails with an
\* exception of any class, a plain Exception included, and the entry
\* deserializes to a non-empty value, get returns the entry's data.
C18_FallbackOnAnyException ==
    [][\A r \in Requests, resp \in Responses :
         (/\ GetStep(r, resp)
          /\ RequestFailed(resp, last')
          /\ Deserializes(files, FileOf[r])
          /\ Truthy(Stored(files, FileOf[r])))
         => (last'.raised = "none" /\ last'.ret = Stored(files, FileOf[r]))]_vars

(***************************************************************************)
(* Properties of _load_from_cache, under SpecLoad.                         *)
(***************************************************************************)
\* C14 (load never raises): a call of _load_from_cache for an entry that
\* does not exist or whose text does not parse returns None and raises
\* nothing, the same outcome in both cases.
C14_LoadAbsent ==
    [][\A f \in Paths :
         (LoadEntry(f) /\ ~Deserializes(files, f))
         => (last'.ret = None /\ last'.raised = "none")]_vars

\* _load_from_cache has been called for an entry that exists and does not
\* parse, and has returned None.
C14_Witness ==
    /\ last.op = "load"
    /\ last.had
    /\ files[last.file].exists
    /\ ~ParseOf[files[last.file].text].ok
    /\ last.ret = None
    /\ last.raised = "none"

(***************************************************************************)
(* The file get consults, under SpecTest.                                  *)
(***************************************************************************)
\* C17 (get consults _get_cache_path(endpoint)): after
\* _save_to_cache(_get_cache_path(E), D), a get(E) without parameters whose
\* request fails returns D.  Stated for a non-empty D and a failure that is
\* a RequestException, the case in which the fallback of get works.
C17_ConsultsEndpointFile ==
    [][\A resp \in Responses :
         (/\ GetStep(TestRequest, resp)
          /\ RequestFailed(resp, last')
          /\ resp.kind \in RequestExceptions
          /\ files[TestFile].exists
          /\ Truthy(Stored(files, TestFile)))
         => (last'.raised = "none" /\ last'.ret = Stored(files, TestFile))]_vars

(***************************************************************************)
(* Availability, under SpecGets.                                           *)
(***************************************************************************)
\* C19 (availability after first success): once a get for a key has
\* returned fetched data, which get has stored in the key's file, no later
\* get for that key raises.
C19_AvailableAfterFetch ==
    [][\A r \in Requests, resp \in Responses :
         (/\ GetStep(r, resp)
          /\ files[FileOf[r]].exists
          /\ files[FileOf[r]].writer = "get")
         => last'.raised = "none"]_vars

(***************************************************************************)
(* Properties of monitor_price, under SpecMonitor.                         *)
(***************************************************************************)
\* The price of a coin in a currency, if the coin has one: its current_price
\* is a number or a numeric string, or a mapping that has such a value for
\* the currency.  None otherwise.
PriceIn(coin, currency) ==
    LET price == DictGet(coin, CurrentPriceKey, None)
        in_currency == IF price.t = "dict" THEN DictGet(price, currency, None) ELSE price
    IN IF in_currency.t = "int" THEN in_currency
       ELSE IF in_currency.t = "str" /\ IsNumeric(in_currency.s)
       THEN PyInt(FloatOf(in_currency.s))
       ELSE None

\* The run of monitor_price got a non-empty list from get.
GotCoin == mon.pc = "done" /\ mon.got.raised = "none" /\ mon.got.ret.t = "list"
              /\ mon.got.ret.xs # <<>>

\* C16 (price alert): in every run of monitor_price in which get returns a
\* non-empty list whose first coin has a price in the requested currency
\* that is at most the threshold, send_email_alert is called, whatever the
\* coin's market_cap is.
C16_PriceAlert ==
    (/\ GotCoin
     /\ PriceIn(mon.got.ret.xs[1], mon.currency).t = "int"
     /\ PriceIn(mon.got.ret.xs[1], mon.currency).i <= mon.threshold)
    => mon.out.alerted

\* C20 (no false alert): monitor_price calls send_email_alert only when the
\* first coin has a numeric price in the requested currency and that price
\* is at most the threshold.
C20_NoFalseAlert ==
    (mon.pc = "done" /\ mon.out.alerted)
    => (/\ GotCoin
        /\ PriceIn(mon.got.ret.xs[1], mon.currency).t = "int"
        /\ PriceIn(mon.got.ret.xs[1], mon.currency).i <= mon.threshold)
====
